---- MODULE Spec2Model ----
(***************************************************************************)
(* o65dump: a state-machine model of src/dump/o65dump.c.                   *)
(*                                                                         *)
(* The program is sequential.  One action stands for one step of the code: *)
(* a loop iteration of main, of the chain loop of dump_file, of the option *)
(* loop of dump_image, of dump_segment, of the symbol loops and of         *)
(* dump_relocs.  A step that makes a routine return carries the return all *)
(* the way up (dump_image -> dump_file -> main) inside the same action.    *)
(*                                                                         *)
(* The bytes of the file are the environment: every read draws its outcome *)
(* from a small set.  What has been written to stdout/stderr is kept in    *)
(* observation variables (diag, nSeps, optOut, addrDigits, sym, relocLog,  *)
(* relocLines ...) that the code itself never reads.                       *)
(***************************************************************************)
EXTENDS Integers, Sequences, FiniteSets

(***************************************************************************)
(* Bounds of the model.                                                    *)
(***************************************************************************)
MaxArgs    == 2   \* file names on the command line
MaxImages  == 2   \* images chained in one file
MaxOptions == 2   \* header options with a non-zero length
MaxRelocs  == 3   \* relocation entries before the terminating entry
MaxSyms    == 1   \* largest symbol count drawn

(***************************************************************************)
(* o65_size_t: an unsigned 32-bit integer, kept as two 16-bit halves so    *)
(* that the arithmetic wraps at 2^32 as it does in C.                      *)
(***************************************************************************)
W16 == 65536

U32(h, l) == [hi |-> h, lo |-> l]

Zero32 == U32(0, 0)

\* a + n in o65_size_t, for 0 <= n < 2^16
Add32(a, n) ==
    LET s == a.lo + n
    IN  U32((a.hi + (s \div W16)) % W16, s % W16)

\* a - n in o65_size_t, for 0 <= n < 2^16
Sub32(a, n) ==
    IF a.lo >= n
    THEN U32(a.hi, a.lo - n)
    ELSE U32((a.hi + W16 - 1) % W16, a.lo + W16 - n)

Lt32(a, b) == \/ a.hi < b.hi
              \/ a.hi = b.hi /\ a.lo < b.lo

Ge32(a, b) == ~Lt32(a, b)

\* number of hex digits of a 16-bit value, without leading zeros
HexLen16(v) ==
    IF v >= 4096 THEN 4 ELSE IF v >= 256 THEN 3 ELSE IF v >= 16 THEN 2 ELSE 1

\* number of hex digits of an o65_size_t value, without leading zeros
HexLen32(a) == IF a.hi = 0 THEN HexLen16(a.lo) ELSE 4 + HexLen16(a.hi)

\* characters printf("%0<w>lx", (unsigned long)a) writes: w is a minimum
PrintfHex(a, w) == IF HexLen32(a) > w THEN HexLen32(a) ELSE w

(***************************************************************************)
(* Inputs.                                                                 *)
(***************************************************************************)
FileNames == {"valid.o65", "missing.bin"}

\* fopen(name, "rb") succeeds
Exists(name) == name # "missing.bin"

\* command lines: argv[1..argc-1]
ArgLists == UNION {[1..n -> FileNames] : n \in 0..MaxArgs}

\* (base, length) pairs a header can hold for the text and the data segment;
\* a 16-bit header holds 16-bit fields, a 32-bit header 32-bit ones
TextSegs16 == {<<U32(0, 0), U32(0, 0)>>, <<U32(0, 512), U32(0, 3)>>,
               <<U32(0, 0), U32(0, 24)>>, <<U32(0, 65528), U32(0, 24)>>}
TextSegs32 == {<<U32(0, 0), U32(0, 3)>>, <<U32(65535, 65528), U32(0, 24)>>}
DataSegs16 == {<<U32(0, 0), U32(0, 0)>>, <<U32(0, 65535), U32(0, 3)>>}
DataSegs32 == {<<U32(0, 0), U32(0, 0)>>, <<U32(65535, 65535), U32(0, 3)>>}

\* relocation offsets a reloc entry can hold
Offsets == {0, 5, 255}

\* the headers o65_read_header can deliver
HeadersOf(m32, T, D) ==
    {[mode32 |-> m32, chain |-> c, tbase |-> t[1], tlen |-> t[2],
      dbase |-> d[1], dlen |-> d[2]] : c \in BOOLEAN, t \in T, d \in D}

Headers == HeadersOf(FALSE, TextSegs16, DataSegs16) \cup
           HeadersOf(TRUE, TextSegs32, DataSegs32)

NoHeader == [mode32 |-> FALSE, chain |-> FALSE, tbase |-> Zero32,
             tlen |-> Zero32, dbase |-> Zero32, dlen |-> Zero32]

NoSym == [tab |-> "none", need |-> 0, got |-> 0, field |-> 0, count |-> 0,
          none |-> FALSE, entries |-> 0, ret |-> 2]

VARIABLES
    argv,        \* the file names of the command line, argv[1..argc-1]
    arg,         \* main: loop variable
    exit_val,    \* main: exit_val
    exit_code,   \* what main returned, -1 while it runs
    dumped,      \* the names dump_file was called with, in order
    pc,          \* the place the program is at
    stream,      \* "open" or "closed": the FILE of the current dump_file
    fstat,       \* "ok", "eof" or "err": the indicators of the stream
    nOpen,       \* successful fopen calls so far
    nClose,      \* fclose calls so far
    diag,        \* last diagnostic dump_file wrote for the current file
    lastRet,     \* what the last dump_file call returned, -1 before
    iter,        \* iterations of the chain loop started in this file
    hdrZeroIter, \* iteration at which o65_read_header returned 0, else 0
    chainLog,    \* chain flag of every image dumped completely in this file
    nSeps,       \* separators printed in this file
    header,      \* dump_file: header
    have_options,\* dump_image: have_options
    optReads,    \* o65_read_option calls in this image
    optOut,      \* what the option loop printed: "hdr" and "opt" lines
    addrDigits,  \* digit counts of the address fields rendered for this image
    segBase,     \* dump_segment: base
    segLen,      \* dump_segment: len
    sym,         \* the last symbol-table routine: its reads and its prints
    addr,        \* dump_relocs: addr
    relBase,     \* dump_relocs: the segment base it was called with
    relocLog,    \* offsets of the entries o65_read_reloc returned
    relocLines,  \* addresses of the relocation lines printed
    relRet       \* what the last dump_relocs returned, 2 while it runs

vars == <<argv, arg, exit_val, exit_code, dumped, pc, stream, fstat, nOpen,
          nClose, diag, lastRet, iter, hdrZeroIter, chainLog, nSeps, header,
          have_options, optReads, optOut, addrDigits, segBase, segLen, sym,
          addr, relBase, relocLog, relocLines, relRet>>

imageVars == <<header, have_options, optReads, optOut, addrDigits>>
segVars   == <<segBase, segLen>>
relVars   == <<addr, relBase, relocLog, relocLines, relRet>>
chainVars == <<iter, hdrZeroIter>>

argc == Len(argv) + 1

Init ==
    /\ argv \in ArgLists
    /\ arg = 1
    /\ exit_val = 0
    /\ exit_code = -1
    /\ dumped = <<>>
    /\ pc = "main"
    /\ stream = "closed"
    /\ fstat = "ok"
    /\ nOpen = 0
    /\ nClose = 0
    /\ diag = "none"
    /\ lastRet = -1
    /\ iter = 0
    /\ hdrZeroIter = 0
    /\ chainLog = <<>>
    /\ nSeps = 0
    /\ header = NoHeader
    /\ have_options = FALSE
    /\ optReads = 0
    /\ optOut = <<>>
    /\ addrDigits = {}
    /\ segBase = Zero32
    /\ segLen = Zero32
    /\ sym = NoSym
    /\ addr = Zero32
    /\ relBase = Zero32
    /\ relocLog = <<>>
    /\ relocLines = <<>>
    /\ relRet = 2

(***************************************************************************)
(* The observation variables describe what the routine that ran last read  *)
(* and printed; they are cleared when a later routine starts.  The locals  *)
(* of a routine (segBase, segLen, addr) are cleared with them: they are    *)
(* out of scope by then.                                                   *)
(***************************************************************************)
ClearOptionObs == optReads' = 0 /\ optOut' = <<>>

ClearSegment == segBase' = Zero32 /\ segLen' = Zero32

ClearSym == sym' = NoSym

ClearRelocs ==
    /\ addr' = Zero32
    /\ relBase' = Zero32
    /\ relocLog' = <<>>
    /\ relocLines' = <<>>
    /\ relRet' = 2

(***************************************************************************)
(* The stream.                                                             *)
(***************************************************************************)
\* outcomes of a read that fails: end of file, or an I/O error
FailStats == {"eof", "err"}

\* a read can deliver data unless the stream is at end of file
CanRead == fstat # "eof"

\* stream indicators after a failed read
FailStat(st) == IF fstat = "eof" THEN "eof" ELSE st

Fclose ==
    /\ stream' = "closed"
    /\ nClose' = nClose + 1

\* file_error that reports and leaves the stream open
file_error_leak(eof) ==
    /\ diag' = IF eof THEN "unexpected EOF" ELSE "perror"
    /\ UNCHANGED <<stream, nClose>>

\* file_error(file, filename), called with the stream indicators eof
file_error(eof) ==
    /\ diag' = IF eof THEN "unexpected EOF" ELSE "perror"
    /\ Fclose

(***************************************************************************)
(* main                                                                    *)
(***************************************************************************)
\* the file name main passes to dump_file in the iteration arg
DumpArg(a) == argv[1]

\* main, lines 47-49 and the ++arg of the loop: dump_file returned ok
DumpFileReturns(ok) ==
    /\ lastRet' = ok
    /\ exit_val' = IF ok = 0 THEN 1 ELSE exit_val
    /\ arg' = arg + 1
    /\ pc' = "main"

\* argc <= 1: usage message, return 1
Usage ==
    /\ pc = "main"
    /\ argc <= 1
    /\ exit_code' = 1
    /\ pc' = "exit"
    /\ UNCHANGED <<argv, arg, exit_val, dumped, stream, fstat, nOpen, nClose,
                   diag, lastRet, chainLog, nSeps, sym>>
    /\ UNCHANGED <<imageVars, segVars, relVars, chainVars>>

\* one iteration of the loop of main up to and including the fopen of
\* dump_file; when fopen fails dump_file returns 0 at once
MainLoop ==
    /\ pc = "main"
    /\ argc > 1
    /\ arg < argc
    /\ dumped' = Append(dumped, DumpArg(arg))
    /\ diag' = IF Exists(DumpArg(arg)) THEN "none" ELSE "perror"
    /\ IF Exists(DumpArg(arg))
       THEN /\ stream' = "open"
            /\ fstat' = "ok"
            /\ nOpen' = nOpen + 1
            /\ pc' = "read_header"
            /\ UNCHANGED <<arg, exit_val, lastRet>>
       ELSE /\ DumpFileReturns(0)
            /\ UNCHANGED <<stream, fstat, nOpen>>
    /\ iter' = 0
    /\ hdrZeroIter' = 0
    /\ chainLog' = <<>>
    /\ nSeps' = 0
    /\ header' = NoHeader
    /\ have_options' = FALSE
    /\ addrDigits' = {}
    /\ ClearOptionObs
    /\ ClearSegment
    /\ ClearSym
    /\ ClearRelocs
    /\ UNCHANGED <<argv, exit_code, nClose>>

\* the loop of main is over: return exit_val
MainReturn ==
    /\ pc = "main"
    /\ argc > 1
    /\ arg >= argc
    /\ exit_code' = exit_val
    /\ pc' = "exit"
    /\ UNCHANGED <<argv, arg, exit_val, dumped, stream, fstat, nOpen, nClose,
                   diag, lastRet, chainLog, nSeps, sym>>
    /\ UNCHANGED <<imageVars, segVars, relVars, chainVars>>

(***************************************************************************)
(* dump_file: the chain loop                                               *)
(***************************************************************************)
\* a chain loop that tells the first iteration from the later ones
HeaderMismatchDiag_byIteration(i) ==
    IF i = 1 THEN "not in .o65 format" ELSE "invalid format"

\* line 453: the diagnostic for o65_read_header returning 0 in iteration i
HeaderMismatchDiag(i) == "not in .o65 format"

\* a separator after every image, the last one too
PrintSeparator_always(h) == TRUE

\* line 470: a separator follows the image just dumped
PrintSeparator(h) == h.chain

\* line 473: the condition of the do-while loop
LoopAgain(h) == h.chain

\* dump_image goes on with its next routine; dump_file's state stays
Continue(next) ==
    /\ pc' = next
    /\ UNCHANGED <<arg, exit_val, stream, nClose, diag, lastRet, chainLog,
                   nSeps>>

\* lines 459-477: dump_image returned r, the stream indicators being eof
DumpImageResult(r, eof) ==
    IF r < 0
    THEN /\ file_error(eof)
         /\ DumpFileReturns(0)
         /\ UNCHANGED <<chainLog, nSeps>>
    ELSE IF r = 0
    THEN /\ diag' = "invalid format"
         /\ Fclose
         /\ DumpFileReturns(0)
         /\ UNCHANGED <<chainLog, nSeps>>
    ELSE /\ chainLog' = Append(chainLog, header.chain)
         /\ nSeps' = IF PrintSeparator(header) THEN nSeps + 1 ELSE nSeps
         /\ IF LoopAgain(header)
            THEN /\ pc' = "read_header"
                 /\ UNCHANGED <<arg, exit_val, stream, nClose, diag, lastRet>>
            ELSE /\ Fclose
                 /\ DumpFileReturns(1)
                 /\ UNCHANGED diag

\* lines 371-391: the digit counts of the header's base and length fields
HeaderDigits(h) ==
    {PrintfHex(f, IF h.mode32 THEN 8 ELSE 4) :
        f \in {h.tbase, h.tlen, h.dbase, h.dlen}}

\* lines 446-456 and 343-394: o65_read_header, then the header part of
\* dump_image up to the option loop
ReadHeader ==
    /\ pc = "read_header"
    /\ \E r \in {-1, 0, 1}, st \in FailStats :
        /\ ~CanRead => r = -1
        /\ iter >= MaxImages => r # 1
        /\ r # -1 => st = "eof"
        /\ iter' = iter + 1
        /\ fstat' = IF r < 0 THEN FailStat(st) ELSE fstat
        /\ IF r < 0
           THEN /\ file_error(FailStat(st) = "eof")
                /\ DumpFileReturns(0)
                /\ UNCHANGED <<hdrZeroIter, imageVars>>
           ELSE IF r = 0
           THEN /\ diag' = HeaderMismatchDiag(iter + 1)
                /\ Fclose
                /\ DumpFileReturns(0)
                /\ hdrZeroIter' = iter + 1
                /\ UNCHANGED imageVars
           ELSE /\ \E h \in Headers :
                     /\ header' = h
                     /\ addrDigits' = HeaderDigits(h)
                /\ have_options' = FALSE
                /\ optReads' = 0
                /\ optOut' = <<>>
                /\ pc' = "options"
                /\ UNCHANGED <<arg, exit_val, stream, nClose, diag, lastRet,
                               hdrZeroIter>>
    /\ ClearSegment
    /\ ClearSym
    /\ ClearRelocs
    /\ UNCHANGED <<argv, exit_code, dumped, nOpen, chainLog, nSeps>>

(***************************************************************************)
(* dump_image: the option loop                                             *)
(***************************************************************************)
\* line 399: the record ends the option list
IsLastOption(len) == len = 0

\* the "Options:" header before every option
NeedOptionsHeader_always(have) == TRUE

\* line 401: the "Options:" header is due before this option
NeedOptionsHeader(have) == ~have

\* lines 395-406: one iteration of the option loop.  o65_read_option
\* returns r and, when r > 0, a record of length len
ReadOption ==
    /\ pc = "options"
    /\ \E r \in {-1, 0, 1}, len \in {0, 2, 5}, st \in FailStats :
        /\ ~CanRead => r = -1
        /\ optReads >= MaxOptions => (r # 1 \/ len = 0)
        /\ r # 1 => len = 0
        /\ r # -1 => st = "eof"
        /\ optReads' = optReads + 1
        /\ fstat' = IF r < 0 THEN FailStat(st) ELSE fstat
        /\ IF r <= 0
           THEN /\ DumpImageResult(r, FailStat(st) = "eof")
                /\ UNCHANGED <<have_options, optOut>>
           ELSE IF IsLastOption(len)
           THEN /\ Continue("text_enter")
                /\ UNCHANGED <<have_options, optOut>>
           ELSE /\ optOut' = IF NeedOptionsHeader(have_options)
                             THEN optOut \o <<"hdr", "opt">>
                             ELSE Append(optOut, "opt")
                /\ have_options' = TRUE
                /\ Continue("options")
    /\ UNCHANGED <<argv, exit_code, dumped, nOpen, header, addrDigits, sym>>
    /\ UNCHANGED <<segVars, relVars, chainVars>>

(***************************************************************************)
(* dump_segment                                                            *)
(***************************************************************************)
\* lines 103-106: the digits dump_hex_line writes for the address a
HexLineDigits(h, a) == PrintfHex(a, IF h.mode32 THEN 8 ELSE 4)

\* lines 409, 412 and 155: dump_segment is called and prints the size line
SegmentEnter ==
    /\ pc \in {"text_enter", "data_enter"}
    /\ segBase' = IF pc = "text_enter" THEN header.tbase ELSE header.dbase
    /\ segLen' = IF pc = "text_enter" THEN header.tlen ELSE header.dlen
    /\ pc' = IF pc = "text_enter" THEN "text" ELSE "data"
    /\ ClearOptionObs
    /\ UNCHANGED <<argv, arg, exit_val, exit_code, dumped, stream, fstat,
                   nOpen, nClose, diag, lastRet, chainLog, nSeps, sym>>
    /\ UNCHANGED <<header, have_options, addrDigits>>
    /\ UNCHANGED <<relVars, chainVars>>

\* lines 158-170: one full chunk, or the last partial chunk and the return
SegmentChunk ==
    /\ pc \in {"text", "data"}
    /\ \E ok \in BOOLEAN, st \in FailStats :
        /\ ~CanRead => ~ok
        /\ (ok \/ segLen = Zero32) => st = "eof"
        /\ segLen = Zero32 => ok
        /\ fstat' = IF ok THEN fstat ELSE FailStat(st)
        /\ IF ~ok
           THEN /\ DumpImageResult(-1, FailStat(st) = "eof")
                /\ UNCHANGED <<segVars, addrDigits>>
           ELSE IF Ge32(segLen, U32(0, 16))
           THEN /\ addrDigits' = addrDigits \cup {HexLineDigits(header, segBase)}
                /\ segBase' = Add32(segBase, 16)
                /\ segLen' = Sub32(segLen, 16)
                /\ Continue(pc)
           ELSE /\ addrDigits' = IF segLen # Zero32
                                 THEN addrDigits \cup
                                        {HexLineDigits(header, segBase)}
                                 ELSE addrDigits
                /\ Continue(IF pc = "text" THEN "data_enter" ELSE "undef_enter")
                /\ UNCHANGED segVars
    /\ UNCHANGED <<argv, exit_code, dumped, nOpen, header, have_options,
                   optReads, optOut, sym>>
    /\ UNCHANGED <<relVars, chainVars>>

(***************************************************************************)
(* dump_undefined_symbols and dump_exported_symbols                        *)
(***************************************************************************)
\* lines 181-189 and 289-297: bytes of the count field fread is asked for
CountFieldSize(h) == IF h.mode32 THEN 4 ELSE 2

\* lines 182, 186, 290, 294, 322, 327: fread returned got bytes and the
\* routine goes on; both widths compare the result with 2
FreadAccepted(h, got) == got = 2

\* lines 417-419 and 430: a symbol-table routine returned r to dump_image
SymReturn(tab, r, eof) ==
    IF tab = "undef" /\ r > 0
    THEN Continue("trelocs_enter")
    ELSE DumpImageResult(r, eof)

\* lines 180-198 and 288-306: the count is read; count 0 prints the "none"
\* line.  field is the count the stream holds when all its bytes are there;
\* junk is what the bytes of buf that fread did not fill happen to hold.
SymCount ==
    /\ pc \in {"undef_enter", "exp_enter"}
    /\ LET tab  == IF pc = "undef_enter" THEN "undef" ELSE "exp"
           need == CountFieldSize(header)
       IN \E got \in 0..need, field \in 0..MaxSyms, junk \in 0..MaxSyms,
             st \in FailStats :
           /\ ~CanRead => got = 0
           /\ got < need => field = 0
           /\ got = need => st = "eof"
           /\ ~(got = 2 /\ need = 4) => junk = 0
           /\ fstat' = IF got < need THEN FailStat(st) ELSE fstat
           /\ LET count == IF got < need THEN junk ELSE field
                  eof   == IF got < need THEN FailStat(st) = "eof"
                                         ELSE fstat = "eof"
                  log   == [tab |-> tab, need |-> need, got |-> got,
                            field |-> field, count |-> 0, none |-> FALSE,
                            entries |-> 0, ret |-> -1]
              IN IF ~FreadAccepted(header, got)
                 THEN /\ sym' = log
                      /\ SymReturn(tab, -1, eof)
                 ELSE IF count = 0
                 THEN /\ sym' = [log EXCEPT !.none = TRUE, !.ret = 1]
                      /\ SymReturn(tab, 1, eof)
                 ELSE /\ sym' = [log EXCEPT !.count = count, !.ret = 2]
                      /\ Continue(IF tab = "undef" THEN "undef_names"
                                                   ELSE "exp_names")
    /\ ClearSegment
    /\ ClearRelocs
    /\ UNCHANGED <<argv, exit_code, dumped, nOpen>>
    /\ UNCHANGED <<imageVars, chainVars>>

\* values an exported symbol can have, as o65_read_uint16 / o65_read_uint32
\* deliver them
SymValues(h) == IF h.mode32 THEN {Zero32, U32(65535, 65535)}
                            ELSE {Zero32, U32(0, 65535)}

\* lines 325 and 330: the digits printed for an exported symbol's value
SymValueDigits(h, v) == PrintfHex(v, IF h.mode32 THEN 8 ELSE 4)

\* lines 199-205 and 307-332: one iteration of the symbol loop.  nameOk:
\* dump_nul_string returned 1; segOk: the getc of the segment id was not
\* EOF; got: what the fread of the value returned
SymEntry ==
    /\ pc \in {"undef_names", "exp_names"}
    /\ LET tab  == sym.tab
           need == CountFieldSize(header)
       IN \E nameOk \in BOOLEAN, segOk \in BOOLEAN, got \in 0..need,
             v \in SymValues(header), st \in FailStats :
           /\ ~CanRead => ~nameOk
           /\ ~nameOk => ~segOk
           /\ (tab = "undef" \/ ~segOk) => got = 0 /\ v = Zero32
           /\ tab = "undef" => segOk = nameOk
           /\ (segOk /\ (tab = "undef" \/ got = need)) => st = "eof"
           /\ LET short == ~nameOk \/ ~segOk \/ (tab = "exp" /\ got < need)
                  done  == /\ nameOk
                           /\ tab = "exp" => segOk /\ FreadAccepted(header, got)
                  eof   == IF short THEN FailStat(st) = "eof"
                                    ELSE fstat = "eof"
              IN /\ fstat' = IF short THEN FailStat(st) ELSE fstat
                 /\ IF ~done
                    THEN /\ sym' = [sym EXCEPT !.ret = -1]
                         /\ SymReturn(tab, -1, eof)
                         /\ UNCHANGED addrDigits
                    ELSE /\ addrDigits' =
                              IF tab = "exp"
                              THEN addrDigits \cup {SymValueDigits(header, v)}
                              ELSE addrDigits
                         /\ IF sym.entries + 1 < sym.count
                            THEN /\ sym' = [sym EXCEPT !.entries = @ + 1]
                                 /\ Continue(pc)
                            ELSE /\ sym' = [sym EXCEPT !.entries = @ + 1,
                                                       !.ret = 1]
                                 /\ SymReturn(tab, 1, eof)
    /\ UNCHANGED <<argv, exit_code, dumped, nOpen, header, have_options,
                   optReads, optOut>>
    /\ UNCHANGED <<segVars, relVars, chainVars>>

(***************************************************************************)
(* dump_relocs                                                             *)
(***************************************************************************)
\* the end of the list looked for in the skip marker
IsSentinel_skipMarker(offset) == offset = 255

\* line 226: the entry ends the relocation list
IsSentinel(offset) == offset = 0

\* line 230: the entry is a skip marker and prints nothing
IsSkip(offset) == offset = 255

\* a skip marker that advances the cursor by 255
NextRelocAddr_skip255(a, offset) ==
    IF offset = 255 THEN Add32(a, 255) ELSE Add32(a, offset)

\* an offset that is assigned to the cursor, not added to it
NextRelocAddr_assign(a, offset) ==
    IF offset = 255 THEN Add32(a, 254) ELSE U32(0, offset)

\* lines 230-236: the cursor after an entry that is not the sentinel
NextRelocAddr(a, offset) ==
    IF offset = 255 THEN Add32(a, 254) ELSE Add32(a, offset)

\* lines 237-240: the digits printed for the address of a relocation
RelocDigits(h, a) == PrintfHex(a, IF h.mode32 THEN 8 ELSE 4)

\* lines 422, 425 and 216-220: dump_relocs is called, steps the address
\* back by one and prints its heading
RelocsEnter ==
    /\ pc \in {"trelocs_enter", "drelocs_enter"}
    /\ LET base == IF pc = "trelocs_enter" THEN header.tbase ELSE header.dbase
       IN /\ relBase' = base
          /\ addr' = Sub32(base, 1)
    /\ relocLog' = <<>>
    /\ relocLines' = <<>>
    /\ relRet' = 2
    /\ pc' = IF pc = "trelocs_enter" THEN "trelocs" ELSE "drelocs"
    /\ ClearSym
    /\ UNCHANGED <<argv, arg, exit_val, exit_code, dumped, stream, fstat,
                   nOpen, nClose, diag, lastRet, chainLog, nSeps>>
    /\ UNCHANGED <<imageVars, segVars, chainVars>>

\* lines 221-274: one iteration of the loop of dump_relocs.  o65_read_reloc
\* returns r and, when r > 0, an entry with the offset o
RelocStep ==
    /\ pc \in {"trelocs", "drelocs"}
    /\ \E r \in {-1, 0, 1}, o \in Offsets, st \in FailStats :
        /\ ~CanRead => r = -1
        /\ Len(relocLog) >= MaxRelocs => (r # 1 \/ o = 0)
        /\ r # 1 => o = 0
        /\ r # -1 => st = "eof"
        /\ fstat' = IF r < 0 THEN FailStat(st) ELSE fstat
        /\ IF r <= 0
           THEN /\ relRet' = r
                /\ DumpImageResult(r, FailStat(st) = "eof")
                /\ UNCHANGED <<addr, relocLog, relocLines, addrDigits>>
           ELSE IF IsSentinel(o)
           THEN /\ relocLog' = Append(relocLog, o)
                /\ relRet' = 1
                /\ Continue(IF pc = "trelocs" THEN "drelocs_enter"
                                              ELSE "exp_enter")
                /\ UNCHANGED <<addr, relocLines, addrDigits>>
           ELSE /\ relocLog' = Append(relocLog, o)
                /\ addr' = NextRelocAddr(addr, o)
                /\ IF IsSkip(o)
                   THEN UNCHANGED <<relocLines, addrDigits>>
                   ELSE /\ relocLines' =
                             Append(relocLines, NextRelocAddr(addr, o))
                        /\ addrDigits' = addrDigits \cup
                             {RelocDigits(header, NextRelocAddr(addr, o))}
                /\ relRet' = 2
                /\ Continue(pc)
    /\ UNCHANGED <<argv, exit_code, dumped, nOpen, header, have_options,
                   optReads, optOut, sym, relBase>>
    /\ UNCHANGED <<segVars, chainVars>>

(***************************************************************************)
(* The program                                                             *)
(***************************************************************************)
Next ==
    \/ Usage
    \/ MainLoop
    \/ MainReturn
    \/ ReadHeader
    \/ ReadOption
    \/ SegmentEnter
    \/ SegmentChunk
    \/ SymCount
    \/ SymEntry
    \/ RelocsEnter
    \/ RelocStep

Spec == Init /\ [][Next]_vars

(***************************************************************************)
(* Properties                                                              *)
(***************************************************************************)
Returned == pc \in {"main", "exit"}

InRelocLoop == pc \in {"trelocs", "drelocs"}

Last(q) == q[Len(q)]

\* C1: main dumps the i-th named file in its i-th iteration, and a command
\* line that names a file that cannot be dumped exits with 1.
C1_EachNamedFileDumped ==
    /\ \A i \in 1..Len(dumped) : dumped[i] = argv[i]
    /\ (pc = "exit" /\ argc > 1) =>
          /\ dumped = argv
          /\ (\E i \in 1..Len(argv) : ~Exists(argv[i])) => exit_code = 1

\* C2: the images dumped from a file are a run of images with the chain flag
\* set followed, when dump_file succeeds, by one image with the flag clear;
\* one separator is printed after every image with the flag set and none
\* after the last image.
C2_ChainPrefix ==
    /\ \A i \in 1..(Len(chainLog) - 1) : chainLog[i]
    /\ nSeps = Cardinality({i \in 1..Len(chainLog) : chainLog[i]})
    /\ (chainLog # <<>> /\ ~Last(chainLog)) =>
          Returned /\ lastRet = 1
    /\ (Returned /\ lastRet = 1) =>
          /\ chainLog # <<>>
          /\ ~Last(chainLog)
          /\ nSeps = Len(chainLog) - 1

C2_Witness ==
    /\ pc = "main"
    /\ lastRet = 1
    /\ chainLog = <<TRUE, FALSE>>
    /\ nSeps = 1

C4_ClosedExactlyOnce ==
    /\ nClose <= nOpen
    /\ Returned => nClose = nOpen /\ stream = "closed"
    /\ ~Returned => nOpen = nClose + 1 /\ stream = "open"

C4_Witness ==
    /\ pc = "main"
    /\ nOpen = 2
    /\ nClose = 2
    /\ iter = 2
    /\ diag = "unexpected EOF"

\* C5: a symbol count that is all there and is 0 makes the routine print
\* the "none" line and no entry, read the count field only, and return 1,
\* in both tables and for both address widths.
C5_ZeroCountPrintsNone ==
    (sym.tab # "none" /\ sym.got = sym.need /\ sym.field = 0) =>
        /\ sym.ret = 1
        /\ sym.none
        /\ sym.entries = 0

\* C6: every address field rendered for an image has 8 hex digits when the
\* image is a 32-bit one and 4 hex digits when it is a 16-bit one.
C6_AddressWidth ==
    addrDigits \subseteq {IF header.mode32 THEN 8 ELSE 4}

\* C7: dump_relocs stops at the first entry with the offset 0: no entry
\* before the last one read has the offset 0, the routine has returned 1
\* exactly when the last entry read has the offset 0, nothing is read after
\* it, and the lines printed are those of the entries that are neither the
\* terminator nor a skip marker.
C7_StopsAtFirstZero ==
    /\ \A i \in 1..(Len(relocLog) - 1) : relocLog[i] # 0
    /\ relRet = 1 <=> (relocLog # <<>> /\ Last(relocLog) = 0)
    /\ (relocLog # <<>> /\ Last(relocLog) = 0) => ~InRelocLoop
    /\ Len(relocLines) =
          Cardinality({i \in 1..Len(relocLog) : relocLog[i] \notin {0, 255}})

C7_Witness ==
    /\ relRet = 1
    /\ relocLog = <<5, 255, 0>>
    /\ Len(relocLines) = 1
    /\ pc = "drelocs_enter"

\* 254 for every skip marker and the offset for every other entry, summed
\* over the first i entries of log
RECURSIVE Advance(_, _)
Advance(log, i) ==
    IF i = 0 THEN 0
    ELSE Advance(log, i - 1) + (IF log[i] = 255 THEN 254 ELSE log[i])

\* the entries of log that print a relocation line
RealEntries(log) == {i \in 1..Len(log) : log[i] \notin {0, 255}}

\* C8: the address of every relocation line is (base - 1) + 254 * (skip
\* markers read so far) + (offsets in 1..254 read so far, this entry's
\* included), in o65_size_t; a skip marker prints no line; the stream
\* 255, 255, 5, 0 prints one line, at base + 254 + 254 + 5 - 1.
C8_RelocAddress ==
    (InRelocLoop \/ relocLog # <<>>) =>
        /\ addr = Add32(Sub32(relBase, 1), Advance(relocLog, Len(relocLog)))
        /\ Len(relocLines) = Cardinality(RealEntries(relocLog))
        /\ \A i \in RealEntries(relocLog) :
              relocLines[Cardinality({j \in RealEntries(relocLog) : j <= i})]
                 = Add32(Sub32(relBase, 1), Advance(relocLog, i))
        /\ relocLog = <<255, 255, 5, 0>> =>
              /\ relocLines = <<Add32(relBase, 512)>>
              /\ relRet = 1

C8_Witness ==
    /\ relocLog = <<255, 255, 5, 0>>
    /\ relBase = U32(0, 512)
    /\ relocLines = <<U32(0, 1024)>>
    /\ relRet = 1

\* a step of the loop of dump_relocs that read an entry other than the
\* terminator
RelocAdvances ==
    /\ InRelocLoop
    /\ Len(relocLog') = Len(relocLog) + 1
    /\ Last(relocLog') # 0

\* C9 as claimed: no step of the loop of dump_relocs produces an address
\* lower than the one before it, whatever the segment base.
C9_CursorNeverDecreases ==
    [][RelocAdvances => ~Lt32(addr', addr)]_vars

\* C9 as amended: every step adds 254 (skip marker) or the offset to the
\* cursor modulo 2^32; the address it produces is lower than the one before
\* exactly when that addition wraps past 2^32 - 1, as the first step from
\* base 0 does, and is higher otherwise.
C9_StepAddsModulo ==
    [][RelocAdvances =>
          LET o == Last(relocLog')
              d == IF o = 255 THEN 254 ELSE o
          IN /\ d \in 1..254
             /\ addr'.lo = (addr.lo + d) % W16
             /\ Lt32(addr', addr) <=> (addr.hi = W16 - 1 /\ addr.lo + d >= W16)
             /\ ~Lt32(addr', addr) => Lt32(addr, addr')]_vars

C9_Witness ==
    /\ InRelocLoop
    /\ relBase = Zero32
    /\ relocLog = <<5>>
    /\ addr = U32(0, 4)
    /\ relocLines = <<U32(0, 4)>>

\* C10: when the option reader yields N records with a non-zero length and
\* then a record of length 0, the option loop prints N option lines, has
\* read N + 1 records when the text segment starts, and prints the
\* "Options:" header once, before the first option, and not at all when
\* N = 0.
C10_OptionLoop ==
    LET N == Cardinality({i \in 1..Len(optOut) : optOut[i] = "opt"})
    IN /\ pc = "options" => optReads = N
       /\ pc = "text_enter" => optReads = N + 1
       /\ pc \in {"options", "text_enter"} =>
             /\ optOut = <<>> <=> N = 0
             /\ have_options <=> N > 0
             /\ N > 0 => /\ Len(optOut) = N + 1
                         /\ optOut[1] = "hdr"

C10_Witness ==
    /\ pc = "text_enter"
    /\ optOut = <<"hdr", "opt", "opt">>
    /\ optReads = 3

====
